---- MODULE Spec2Model ----
(***************************************************************************)
(* Form-automation service: the singleton BrowserManager (lazy, lock-      *)
(* guarded initialisation and shutdown), the per-request fill_form         *)
(* pipeline with its scoped browser context, and FormA28Page's per-field   *)
(* fill over the field-mapping registry.                                   *)
(*                                                                         *)
(* Granularity: one action per run of code between two suspending awaits   *)
(* of the asyncio event loop.  A Playwright call takes effect when its     *)
(* await completes; whether it succeeds is the environment's choice.       *)
(***************************************************************************)
EXTENDS Integers, Sequences, FiniteSets, TLC

----------------------------------------------------------------------------
(* Bounds of the model *)

NumFills == 2          \* concurrent fill_form requests
NumShutdowns == 1      \* shutdown_browser callers
MaxFaults == 1         \* fields per fill on which the page misbehaves
MaxDuration == 1       \* durationMs is drawn from 0..MaxDuration
ConcMappings == 3      \* registry entries a fill covers when fills run concurrently

Fills == 1..NumFills
Shutdowns == 1..NumShutdowns

----------------------------------------------------------------------------
(* Optional values: None is the empty sequence, a present value a singleton *)

Null == << >>
Some(x) == << x >>

----------------------------------------------------------------------------
(* field_mapping.py: the registry *)

TEXT == "text"
SELECT == "select"
RADIO == "radio"
CHECKBOX == "checkbox"
DATE == "date"
EMAIL == "email"
TEL == "tel"

FieldMapping(name, sel, kind, req) ==
  [field_name |-> name, selector |-> sel, field_type |-> kind, required |-> req]

ATTORNEY_FIELDS ==
  << FieldMapping("online_account_number", "#attorney-online-account", TEXT, FALSE),
     FieldMapping("attorney_last_name", "#attorney-last-name", TEXT, TRUE),
     FieldMapping("attorney_first_name", "#attorney-first-name", TEXT, TRUE),
     FieldMapping("attorney_middle_name", "#attorney-middle-name", TEXT, FALSE),
     FieldMapping("street", "#attorney-street", TEXT, TRUE),
     FieldMapping("apt_ste_flr", "#attorney-apt-type", SELECT, FALSE),
     FieldMapping("apt_ste_flr_number", "#attorney-apt-number", TEXT, FALSE),
     FieldMapping("city", "#attorney-city", TEXT, TRUE),
     FieldMapping("state", "#attorney-state", SELECT, TRUE),
     FieldMapping("zip_code", "#attorney-zip", TEXT, TRUE),
     FieldMapping("country", "#attorney-country", TEXT, FALSE),
     FieldMapping("daytime_phone", "#attorney-daytime-phone", TEL, TRUE),
     FieldMapping("mobile_phone", "#attorney-mobile-phone", TEL, FALSE),
     FieldMapping("email", "#attorney-email", EMAIL, FALSE) >>

ELIGIBILITY_FIELDS ==
  << FieldMapping("is_attorney", "#eligibility-attorney", CHECKBOX, FALSE),
     FieldMapping("bar_number", "#eligibility-bar-number", TEXT, FALSE),
     FieldMapping("licensing_authority", "#eligibility-licensing-authority", TEXT, FALSE),
     FieldMapping("is_subject_to_orders", "input[name=\"subject-to-orders\"]", RADIO, FALSE),
     FieldMapping("law_firm_or_organization", "#eligibility-law-firm", TEXT, FALSE),
     FieldMapping("is_accredited_rep", "#eligibility-accredited-rep", CHECKBOX, FALSE),
     FieldMapping("organization_name", "#eligibility-organization-name", TEXT, FALSE),
     FieldMapping("accreditation_date", "#eligibility-accreditation-date", DATE, FALSE),
     FieldMapping("is_associated_with_attorney", "#eligibility-associated-attorney", CHECKBOX, FALSE),
     FieldMapping("is_law_student", "#eligibility-law-student", CHECKBOX, FALSE),
     FieldMapping("law_student_name", "#eligibility-law-student-name", TEXT, FALSE) >>

PASSPORT_FIELDS ==
  << FieldMapping("client_last_name", "#client-last-name", TEXT, TRUE),
     FieldMapping("client_first_name", "#client-first-name", TEXT, TRUE),
     FieldMapping("client_middle_name", "#client-middle-name", TEXT, FALSE),
     FieldMapping("passport_number", "#passport-number", TEXT, TRUE),
     FieldMapping("country_of_issue", "#passport-country-issue", TEXT, TRUE),
     FieldMapping("date_of_issue", "#passport-date-issue", DATE, TRUE),
     FieldMapping("date_of_expiration", "#passport-date-expiration", DATE, TRUE),
     FieldMapping("date_of_birth", "#client-date-of-birth", DATE, TRUE),
     FieldMapping("place_of_birth", "#client-place-of-birth", TEXT, TRUE),
     FieldMapping("sex", "input[name=\"client-sex\"]", RADIO, TRUE),
     FieldMapping("nationality", "#client-nationality", TEXT, TRUE),
     FieldMapping("alien_number", "#client-alien-number", TEXT, FALSE) >>

CLIENT_CONSENT_FIELDS ==
  << FieldMapping("notice_to_attorney", "#consent-notice-attorney", CHECKBOX, FALSE),
     FieldMapping("documents_to_attorney", "#consent-docs-attorney", CHECKBOX, FALSE),
     FieldMapping("documents_to_client", "#consent-docs-client", CHECKBOX, FALSE),
     FieldMapping("client_signature_date", "#client-signature-date", DATE, TRUE) >>

ATTORNEY_SIGNATURE_FIELDS ==
  << FieldMapping("attorney_signature_date", "#attorney-signature-date", DATE, TRUE) >>

ALL_FIELD_MAPPINGS ==
  ATTORNEY_FIELDS \o ELIGIBILITY_FIELDS \o PASSPORT_FIELDS
    \o CLIENT_CONSENT_FIELDS \o ATTORNEY_SIGNATURE_FIELDS

NumMappings == Len(ALL_FIELD_MAPPINGS)

FieldNames == { ALL_FIELD_MAPPINGS[i].field_name : i \in 1..NumMappings }

get_required_fields == SelectSeq(ALL_FIELD_MAPPINGS, LAMBDA m : m.required)

----------------------------------------------------------------------------
(* schemas.py: values a FormA28Input field can hold after model_dump        *)
(* (enum members stay enum members: no use_enum_values in Config)           *)

PyNone == [t |-> "none", s |-> "", b |-> FALSE, e |-> ""]
PyStrVal(x) == [t |-> "str", s |-> x, b |-> FALSE, e |-> ""]
PyBoolVal(x) == [t |-> "bool", s |-> "", b |-> x, e |-> ""]
\* a member of a (str, Enum) class: s is its value, e its qualified name
PyEnumVal(qual, val) == [t |-> "enum", s |-> val, b |-> FALSE, e |-> qual]

AptSteFlr == { PyEnumVal("AptSteFlr.APT", "Apt"), PyEnumVal("AptSteFlr.STE", "Ste"),
               PyEnumVal("AptSteFlr.FLR", "Flr") }
Sex == { PyEnumVal("Sex.M", "M"), PyEnumVal("Sex.F", "F"), PyEnumVal("Sex.X", "X") }
SubjectToOrders == { PyEnumVal("SubjectToOrders.AM_NOT", "am_not"),
                     PyEnumVal("SubjectToOrders.AM", "am") }

\* str(value): Enum.__str__ of a mixed-in enum is "Class.MEMBER", not the value
PyStr(v) ==
  CASE v.t = "str"  -> v.s
    [] v.t = "bool" -> IF v.b THEN "True" ELSE "False"
    [] v.t = "enum" -> v.e
    [] OTHER        -> "None"

\* bool(value)
PyBool(v) ==
  CASE v.t = "bool" -> v.b
    [] v.t = "none" -> FALSE
    [] OTHER        -> v.s # ""

\* (variant: only None counts as empty)
IsEmptyValue_none_only(v) == v.t = "none"

\* (variant: every falsy value counts as empty)
IsEmptyValue_falsy(v) == ~PyBool(v)

\* value is None or value == ""
IsEmptyValue(v) == v.t = "none" \/ (v.t \in {"str", "enum"} /\ v.s = "")

\* The declared type of each registry field in FormA28Input
BoolFields == { "is_attorney", "is_accredited_rep", "is_associated_with_attorney",
                "is_law_student", "notice_to_attorney", "documents_to_attorney",
                "documents_to_client" }

IsRequiredName(f) ==
  \E i \in 1..NumMappings :
    ALL_FIELD_MAPPINGS[i].field_name = f /\ ALL_FIELD_MAPPINGS[i].required

SchemaType(f) ==
  CASE f = "apt_ste_flr"          -> "Optional[AptSteFlr]"
    [] f = "is_subject_to_orders" -> "Optional[SubjectToOrders]"
    [] f = "sex"                  -> "Sex"
    [] f = "country"              -> "str=United States"
    [] f \in BoolFields           -> "bool=False"
    [] IsRequiredName(f)          -> "str"
    [] OTHER                      -> "Optional[str]"

\* (variant: a field left out of the request is None whatever its type)
SchemaDefault_none(f) == PyNone

\* The value a field takes when the request leaves it out
SchemaDefault(f) ==
  CASE SchemaType(f) = "str=United States" -> PyStrVal("United States")
    [] SchemaType(f) = "bool=False"        -> PyBoolVal(FALSE)
    [] OTHER                               -> PyNone

----------------------------------------------------------------------------
(* Request records (FormA28Input instances) the fills are run with *)

\* every required field present, every optional field left out
RecordA(f) ==
  CASE SchemaType(f) = "str" -> PyStrVal("Alice")
    [] SchemaType(f) = "Sex" -> PyEnumVal("Sex.M", "M")
    [] OTHER                 -> SchemaDefault(f)

\* RecordA with an empty passport number
RecordB(f) == IF f = "passport_number" THEN PyStrVal("") ELSE RecordA(f)

\* every field present
RecordFull(f) ==
  CASE SchemaType(f) = "Optional[AptSteFlr]"       -> PyEnumVal("AptSteFlr.APT", "Apt")
    [] SchemaType(f) = "Optional[SubjectToOrders]" -> PyEnumVal("SubjectToOrders.AM_NOT", "am_not")
    [] SchemaType(f) = "Sex"                       -> PyEnumVal("Sex.F", "F")
    [] SchemaType(f) = "bool=False"                -> PyBoolVal(TRUE)
    [] OTHER                                       -> PyStrVal("Frank")

\* every string present but empty
RecordBlank(f) ==
  CASE SchemaType(f) \in {"str", "Optional[str]", "str=United States"} -> PyStrVal("")
    [] SchemaType(f) = "Sex" -> PyEnumVal("Sex.X", "X")
    [] OTHER                 -> SchemaDefault(f)

RecordIds == {"A", "B", "Full", "Blank"}

\* data.model_dump(by_alias=False).get(field_name)
Record(id) ==
  [f \in FieldNames |->
     CASE id = "A"    -> RecordA(f)
       [] id = "B"    -> RecordB(f)
       [] id = "Full" -> RecordFull(f)
       [] OTHER       -> RecordBlank(f)]

----------------------------------------------------------------------------
(* URLs, as sequences of tokens: the origin, then path and query pieces.   *)
(* The string of a URL is the concatenation of its tokens.                 *)

Url(origin, path, query) == [origin |-> origin, path |-> path, query |-> query]
UrlString(u) == << u.origin >> \o u.path \o u.query

FormOrigin == "https://mendrika-alma.github.io"
FormPath == << "/form-submission/" >>
TARGET_FORM_URL == Url(FormOrigin, FormPath, << >>)

\* Where the page can be when the guard runs
CurrentUrls ==
  { TARGET_FORM_URL,
    Url(FormOrigin, FormPath, << "?sent=1" >>),
    Url(FormOrigin, << "/form-submission/", "thanks" >>, << >>),
    Url(FormOrigin, << "/other/" >>, << >>),
    Url("https://example.org", << "/done" >>, << >>),
    Url("https://example.org", << "/r" >>, << "?next=", FormOrigin, "/form-submission/" >>) }

\* The page has left the form: origin or path differs from the form's
NavigatedAway(form, cur) == cur.origin # form.origin \/ cur.path # form.path

\* x in y on strings
IsSubstring(x, y) ==
  \E i \in 0..(Len(y) - Len(x)) : \A k \in 1..Len(x) : y[i + k] = x[k]

\* FormA28Page.verify_no_submit
verify_no_submit(form_url, current_url) ==
  IsSubstring(UrlString(form_url), UrlString(current_url))
    \/ UrlString(current_url) = UrlString(form_url)

----------------------------------------------------------------------------
(* schemas.py: FieldResult and FillResult *)

FILLED == "filled"
SKIPPED == "skipped"
FAILED == "failed"

\* value: Null or Some(string); error: Null or Some(message), a message being
\* the sequence of the pieces it is formatted from
FieldResult(name, status, value, error) ==
  [fieldName |-> name, status |-> status, value |-> value, error |-> error]

FillResult(success, filledF, skippedF, failedF, screenshot, duration, error) ==
  [success |-> success, filledFields |-> filledF, skippedFields |-> skippedF,
   failedFields |-> failedF, screenshotBase64 |-> screenshot,
   durationMs |-> duration, error |-> error]

Durations == 0..MaxDuration

----------------------------------------------------------------------------
(* form_a28_page.py: the per-field fill *)

\* What the page does for one field: the selectors that match an element
\* (0 the mapping's selector, 1..4 the alternatives in order) and how the
\* interaction ends when it is applied to an element that exists
\* ("no_option": the element is there and can be operated, but offers no
\* option or radio button with the value asked for)
Alternatives == 1..4
NominalEnv == [found |-> {0}, act |-> "ok"]
FoundSets == { {0}, {}, {1}, {4}, {2, 3}, {0, 2} }
Acts == {"ok", "timeout", "error", "no_option"}
FieldEnvs == [found : FoundSets, act : Acts]
\* the browser was closed under the fill: the first query raises
DeadEnv == [found |-> {}, act |-> "query_error"]

TimeoutMsg == << "Timeout waiting for element" >>
InteractionErr == << "Element is not attached to the DOM" >>
TargetClosedErr == << "Target page, context or browser has been closed" >>

\* alternatives of _try_alternative_selectors, in the order they are tried
alternatives(field_name) ==
  << << "[name=\"", field_name, "\"]" >>,
     << "[data-field=\"", field_name, "\"]" >>,
     << "#", "replace(_,-)", field_name >>,
     << "input[placeholder*=\"", "replace(_, )", field_name, "\"]" >> >>

RECURSIVE TryFrom(_, _)
\* the loop of _try_alternative_selectors from alternative k on:
\* the alternatives queried, and the one that matched (0: none)
TryFrom(k, found) ==
  IF k \notin Alternatives THEN [probes |-> << >>, element |-> 0]
  ELSE IF k \in found THEN [probes |-> << k >>, element |-> k]
  ELSE LET rest == TryFrom(k + 1, found)
       IN [probes |-> << k >> \o rest.probes, element |-> rest.element]

_try_alternative_selectors(mapping, env) == TryFrom(1, env.found)

\* the page call the field type selects, always on the mapping's selector
FillCall(mapping, value) ==
  CASE mapping.field_type \in {TEXT, EMAIL, TEL, DATE} ->
         [op |-> "fill", selector |-> mapping.selector, arg |-> PyStr(value)]
    [] mapping.field_type = SELECT ->
         [op |-> "select_option", selector |-> mapping.selector, arg |-> PyStr(value)]
    [] mapping.field_type = CHECKBOX ->
         [op |-> IF PyBool(value) THEN "check" ELSE "uncheck",
          selector |-> mapping.selector, arg |-> ""]
    [] OTHER ->
         [op |-> "radio", selector |-> mapping.selector, arg |-> PyStr(value)]

\* page.fill(selector, value)
_fill_text_field(env) == IF env.act = "no_option" THEN "ok" ELSE env.act

\* (variant: selecting an option that is not there does nothing)
_fill_select_field_noop(env) == IF env.act = "no_option" THEN "ok" ELSE env.act

\* page.select_option(selector, value) waits until the option is there
_fill_select_field(env) == IF env.act = "no_option" THEN "timeout" ELSE env.act

\* page.check(selector) / page.uncheck(selector)
_fill_checkbox_field(env) == IF env.act = "no_option" THEN "ok" ELSE env.act

\* query_selector(selector[value=...]); check it when it is there, else
\* click the same selector, which waits for an element that is not there
_fill_radio_field(env) == IF env.act = "no_option" THEN "timeout" ELSE env.act

\* How the page call ends: it waits for its selector, so it times out when
\* the mapping's selector matches nothing (the element was found through an
\* alternative only)
CallOutcome(call, env) ==
  IF env.act = "error" THEN "error"
  ELSE IF 0 \notin env.found THEN "timeout"
  ELSE CASE call.op = "fill"          -> _fill_text_field(env)
         [] call.op = "select_option" -> _fill_select_field(env)
         [] call.op = "radio"         -> _fill_radio_field(env)
         [] OTHER                     -> _fill_checkbox_field(env)

\* An outcome of _fill_field: the list it is appended to, the FieldResult,
\* the selectors queried and the page call made

\* (variant: an empty value is skipped, required or not)
empty_outcome_skips(mapping) ==
  [list |-> SKIPPED, probes |-> << >>, call |-> Null,
   result |-> FieldResult(mapping.field_name, SKIPPED, Null,
                          Some(<< "Empty optional field" >>))]

\* _fill_field lines 56-76: the value is None or ""
empty_outcome(mapping) ==
  IF ~mapping.required
  THEN [list |-> SKIPPED, probes |-> << >>, call |-> Null,
        result |-> FieldResult(mapping.field_name, SKIPPED, Null,
                               Some(<< "Empty optional field" >>))]
  ELSE [list |-> FAILED, probes |-> << >>, call |-> Null,
        result |-> FieldResult(mapping.field_name, FAILED, Null,
                               Some(<< "Required field is empty" >>))]

\* (variant: a missing element leaves no outcome at all)
not_found_outcome_dropped(mapping, value, queried) ==
  [list |-> "none", probes |-> queried, call |-> Null,
   result |-> FieldResult(mapping.field_name, SKIPPED, Some(PyStr(value)), Null)]

\* (variant: a required field whose element is missing is failed)
not_found_outcome_fails_required(mapping, value, queried) ==
  LET st == IF mapping.required THEN FAILED ELSE SKIPPED IN
  [list |-> st, probes |-> queried, call |-> Null,
   result |-> FieldResult(mapping.field_name, st, Some(PyStr(value)),
                          Some(<< "Selector not found: ", mapping.selector >>))]

\* _fill_field lines 84-94: no selector matched
not_found_outcome(mapping, value, queried) ==
  [list |-> SKIPPED, probes |-> queried, call |-> Null,
   result |-> FieldResult(mapping.field_name, SKIPPED, Some(PyStr(value)),
                          Some(<< "Selector not found: ", mapping.selector >>))]

\* (variant: a timeout is recorded as a skip)
except_outcome_skips(mapping, value, queried, call, raised) ==
  [list |-> IF raised = "timeout" THEN SKIPPED ELSE FAILED,
   probes |-> queried, call |-> call,
   result |-> FieldResult(mapping.field_name,
                          IF raised = "timeout" THEN SKIPPED ELSE FAILED,
                          Some(PyStr(value)),
                          Some(IF raised = "timeout" THEN TimeoutMsg
                               ELSE InteractionErr))]

\* _fill_field lines 122-141: the except clauses
except_outcome(mapping, value, queried, call, raised) ==
  [list |-> FAILED, probes |-> queried, call |-> call,
   result |-> FieldResult(mapping.field_name, FAILED, Some(PyStr(value)),
                          Some(IF raised = "timeout" THEN TimeoutMsg
                               ELSE IF raised = "closed" THEN TargetClosedErr
                               ELSE InteractionErr))]

\* _fill_field lines 96-119: the page call on a resolved element
resolved_outcome(mapping, value, queried, env) ==
  LET call == Some(FillCall(mapping, value)) IN
  IF CallOutcome(call[1], env) = "ok"
  THEN [list |-> FILLED, probes |-> queried, call |-> call,
        result |-> FieldResult(mapping.field_name, FILLED, Some(PyStr(value)), Null)]
  ELSE except_outcome(mapping, value, queried, call, CallOutcome(call[1], env))

\* FormA28Page._fill_field
_fill_field(mapping, value, env) ==
  IF IsEmptyValue(value) THEN empty_outcome(mapping)
  ELSE IF env.act = "query_error"
  THEN except_outcome(mapping, value, << 0 >>, Null, "closed")
  ELSE
    LET alt == IF 0 \in env.found THEN [probes |-> << >>, element |-> 0]
               ELSE _try_alternative_selectors(mapping, env)
        queried == << 0 >> \o alt.probes
    IN IF 0 \notin env.found /\ alt.element = 0
       THEN not_found_outcome(mapping, value, queried)
       ELSE resolved_outcome(mapping, value, queried, env)

----------------------------------------------------------------------------
(* automation.py: state *)

NoMgr == 0      \* BrowserManager._instance is None
NoProc == 0     \* BrowserManager._lock is not held

VARIABLES
  instance,     \* BrowserManager._instance: NoMgr or the index of a manager in mgr
  lock,         \* BrowserManager._lock: NoProc or the fill holding it
  waiters,      \* the fills waiting for the lock, first come first served
  mgr,          \* the BrowserManager objects created so far: _playwright and
                \* _browser (set or None) and _headless, and the mode its
                \* browser was launched in
  pwRunning,    \* managers whose Playwright driver process is running
  brAlive,      \* managers whose Chromium process is running
  launched,     \* managers whose Chromium was ever launched
  fill,         \* per fill_form call: its frame and its FormA28Page
  sd            \* per shutdown_browser call: its position and its self

vars == << instance, lock, waiters, mgr, pwRunning, brAlive, launched, fill, sd >>
shared == << instance, lock, waiters, mgr, pwRunning, brAlive, launched >>

NoExc == [kind |-> "none", msg |-> << >>]
Exception(msg) == [kind |-> "Exception", msg |-> msg]
CancelledError == [kind |-> "CancelledError", msg |-> << >>]

\* A fill_form call before it starts.  records and flags are what the caller
\* may pass, budget the number of fields the page may misbehave on, n the
\* length of the registry prefix the run covers, durations the times it may
\* take
NewFill(records, flags, budget, n, durations) ==
  [pc |-> "idle", records |-> records, flags |-> flags, budget |-> budget,
   n |-> n, durations |-> durations,
   form_data |-> "", headless |-> TRUE, self |-> NoMgr, manager |-> NoMgr,
   context |-> "none", idx |-> 0,
   filled_fields |-> << >>, skipped_fields |-> << >>, failed_fields |-> << >>,
   probes |-> << >>, call |-> Null, env |-> NominalEnv,
   current_url |-> Null, guard |-> "not_run", screenshot |-> FALSE,
   exc |-> NoExc, ret |-> Null, cancelled |-> FALSE,
   report |-> Null, raised |-> "none"]

NewShutdown == [pc |-> "idle", self |-> NoMgr]

InitShared ==
  /\ instance = NoMgr
  /\ lock = NoProc
  /\ waiters = << >>
  /\ mgr = << >>
  /\ pwRunning = {}
  /\ brAlive = {}
  /\ launched = {}
  /\ sd = [s \in Shutdowns |-> NewShutdown]

\* Concurrent requests on a well-behaved page: fill p sends a record and a
\* headless flag of its own
Init ==
  /\ InitShared
  /\ fill = [p \in Fills |->
               NewFill({IF p % 2 = 1 THEN "A" ELSE "Full"}, {p % 2 = 1}, 0,
                       ConcMappings, {0})]

----------------------------------------------------------------------------
(* automation.py: fill_form and BrowserManager.get_instance *)

AttributeErr == << "'NoneType' object has no attribute 'new_context'" >>
NotInitializedErr == << "Browser not initialized" >>
SubmittedErr == << "Form appears to have been submitted unexpectedly" >>
PlaywrightStartErr == << "playwright start failed" >>
LaunchErr == << "browser launch failed" >>
NewContextErr == << "new_context failed" >>
NewPageErr == << "new_page failed" >>
NavigationErr == << "navigation failed" >>
ScreenshotErr == << "screenshot failed" >>
CloseErr == << "context close failed" >>

\* fill_form is over: its frame and its FormA28Page are gone
Over(f) ==
  [f EXCEPT !.pc = "done", !.budget = 0, !.self = NoMgr,
            !.filled_fields = << >>, !.skipped_fields = << >>,
            !.failed_fields = << >>, !.probes = << >>, !.call = Null,
            !.env = NominalEnv, !.exc = NoExc, !.ret = Null]

\* fill_form returns
Returned(f, rep) == [Over(f) EXCEPT !.report = Some(rep)]

\* (variant: the handler lets the exception through)
Caught_reraises(f, msg, d) == [Over(f) EXCEPT !.raised = "Exception"]

\* (variant: the error report keeps a screenshot)
ErrorResult_with_screenshot(msg, d) ==
  FillResult(FALSE, << >>, << >>, << >>, Some("base64"), d, Some(msg))

\* except Exception as e: the report of lines 155-163
ErrorResult(msg, d) == FillResult(FALSE, << >>, << >>, << >>, Null, d, Some(msg))
Caught(f, msg, d) == Returned(f, ErrorResult(msg, d))

\* an exception that is no Exception leaves fill_form
Propagated(f) == [Over(f) EXCEPT !.raised = "CancelledError"]

\* an exception inside "async with manager.new_context()": the finally of
\* new_context runs first
Raise(f, e) == [f EXCEPT !.pc = "ctx_exit", !.exc = e]

\* manager = <what get_instance returned>; manager.new_context() up to its
\* first await
EnterContext(f, m, hasBrowser, d) ==
  LET g == [f EXCEPT !.manager = m] IN
  IF m = NoMgr THEN Caught(g, AttributeErr, d)
  ELSE IF ~hasBrowser THEN Caught(g, NotInitializedErr, d)
  ELSE [g EXCEPT !.pc = "new_context"]

\* cls._instance = BrowserManager(); cls._instance._headless = headless
NewManager(headless) ==
  [pw |-> FALSE, br |-> FALSE, headless |-> headless, mode |-> "none"]

\* chromium.launch(headless=self._headless, ...)
LaunchMode(m) == IF m.headless THEN "headless" ELSE "headed"

\* (variant: the flag of every call is written to the registered manager)
GetInstanceBody_applies_flag(p, f, d) ==
  IF instance = NoMgr
  THEN LET m == Len(mgr) + 1 IN
       /\ mgr' = Append(mgr, NewManager(f.headless))
       /\ instance' = m
       /\ lock' = p
       /\ fill' = [fill EXCEPT ![p] = [f EXCEPT !.pc = "init_pw", !.self = m]]
  ELSE /\ fill' = [fill EXCEPT ![p] = EnterContext(f, instance, mgr[instance].br, d)]
       /\ lock' = NoProc
       /\ mgr' = [mgr EXCEPT ![instance].headless = f.headless]
       /\ UNCHANGED instance

\* The body of "async with cls._lock" up to its first await, run by fill p
\* with frame f, the lock being free
GetInstanceBody(p, f, d) ==
  IF instance = NoMgr
  THEN LET m == Len(mgr) + 1 IN
       /\ mgr' = Append(mgr, NewManager(f.headless))
       /\ instance' = m
       /\ lock' = p
       /\ fill' = [fill EXCEPT ![p] = [f EXCEPT !.pc = "init_pw", !.self = m]]
  ELSE /\ fill' = [fill EXCEPT ![p] = EnterContext(f, instance, mgr[instance].br, d)]
       /\ lock' = NoProc
       /\ UNCHANGED << mgr, instance >>

\* (variant: get_instance without the lock)
LockFree_unguarded == TRUE

LockFree == lock = NoProc /\ waiters = << >>

\* fill_form is called and gets the lock at once
FillStart(p) ==
  /\ fill[p].pc = "idle"
  /\ LockFree
  /\ \E r \in fill[p].records, h \in fill[p].flags, d \in fill[p].durations :
       GetInstanceBody(p, [fill[p] EXCEPT !.form_data = r, !.headless = h], d)
  /\ UNCHANGED << waiters, pwRunning, brAlive, launched, sd >>

\* fill_form is called and has to wait for the lock
FillStartWait(p) ==
  /\ fill[p].pc = "idle"
  /\ ~LockFree
  /\ \E r \in fill[p].records, h \in fill[p].flags :
       fill' = [fill EXCEPT ![p] = [@ EXCEPT !.form_data = r, !.headless = h,
                                             !.pc = "wait_lock"]]
  /\ waiters' = Append(waiters, p)
  /\ UNCHANGED << instance, lock, mgr, pwRunning, brAlive, launched, sd >>

\* the lock is handed to the first waiter
LockGranted(p) ==
  /\ fill[p].pc = "wait_lock"
  /\ lock = NoProc
  /\ waiters # << >> /\ Head(waiters) = p
  /\ waiters' = Tail(waiters)
  /\ \E d \in fill[p].durations : GetInstanceBody(p, fill[p], d)
  /\ UNCHANGED << pwRunning, brAlive, launched, sd >>

\* _initialize: async_playwright().start() ends
InitPlaywright(p) ==
  /\ fill[p].pc = "init_pw"
  /\ LET self == fill[p].self IN
     \/ /\ mgr' = [mgr EXCEPT ![self].pw = TRUE]
        /\ pwRunning' = pwRunning \cup {self}
        /\ fill' = [fill EXCEPT ![p].pc = "init_launch"]
        /\ UNCHANGED lock
     \/ /\ \E d \in fill[p].durations :
             fill' = [fill EXCEPT ![p] = Caught(@, PlaywrightStartErr, d)]
        /\ lock' = NoProc
        /\ UNCHANGED << mgr, pwRunning >>
  /\ UNCHANGED << instance, waiters, brAlive, launched, sd >>

\* _initialize: chromium.launch() ends; get_instance returns cls._instance
InitLaunch(p) ==
  /\ fill[p].pc = "init_launch"
  /\ LET self == fill[p].self IN
     \/ /\ self \in pwRunning
        /\ mgr' = [mgr EXCEPT ![self].br = TRUE, ![self].mode = LaunchMode(mgr[self])]
        /\ brAlive' = brAlive \cup {self}
        /\ launched' = launched \cup {self}
        /\ \E d \in fill[p].durations :
             fill' = [fill EXCEPT ![p] =
                        EnterContext(@, instance,
                                     instance # NoMgr /\ mgr'[instance].br, d)]
     \/ /\ \E d \in fill[p].durations :
             fill' = [fill EXCEPT ![p] = Caught(@, LaunchErr, d)]
        /\ UNCHANGED << mgr, brAlive, launched >>
  /\ lock' = NoProc
  /\ UNCHANGED << instance, waiters, pwRunning, sd >>

BrowserUp(p) == fill[p].manager \in brAlive

\* new_context: self._browser.new_context() ends
NewContext(p) ==
  /\ fill[p].pc = "new_context"
  /\ \/ /\ BrowserUp(p)
        /\ fill' = [fill EXCEPT ![p].context = "open", ![p].pc = "new_page"]
     \/ \E d \in fill[p].durations :
          fill' = [fill EXCEPT ![p] = Caught(@, NewContextErr, d)]
  /\ UNCHANGED << shared, sd >>

\* context.new_page() ends
NewPage(p) ==
  /\ fill[p].pc = "new_page"
  /\ \/ /\ BrowserUp(p)
        /\ fill' = [fill EXCEPT ![p].pc = "navigate"]
     \/ fill' = [fill EXCEPT ![p] = Raise(@, Exception(NewPageErr))]
  /\ UNCHANGED << shared, sd >>

\* FormA28Page.navigate: page.goto() ends
Navigate(p) ==
  /\ fill[p].pc = "navigate"
  /\ \/ /\ BrowserUp(p)
        /\ fill' = [fill EXCEPT ![p].pc = "fields",
                                ![p].current_url = Some(TARGET_FORM_URL)]
     \/ fill' = [fill EXCEPT ![p] = Raise(@, Exception(NavigationErr))]
  /\ UNCHANGED << shared, sd >>

\* What the page may do for the next field of fill p
EnvChoices(p, value) ==
  IF IsEmptyValue(value) THEN {NominalEnv}
  ELSE IF ~BrowserUp(p) THEN {DeadEnv}
  ELSE IF fill[p].budget > 0 THEN FieldEnvs ELSE {NominalEnv}

\* a misbehaviour of a live page uses up one of the budget
Cost(p, env) == IF env = NominalEnv \/ ~BrowserUp(p) THEN 0 ELSE 1

\* (variant: one dict kept at module level and read by every call)
data_dict_shared(f) == Record("A")

\* data_dict = data.model_dump(by_alias=False), of the call's own record
data_dict(f) == Record(f.form_data)

\* (variant: the loop runs over the registry from its end)
NextMapping_reversed(f) == ALL_FIELD_MAPPINGS[f.n - f.idx]

\* for mapping in ALL_FIELD_MAPPINGS: the mapping of the next turn
NextMapping(f) == ALL_FIELD_MAPPINGS[f.idx + 1]

\* FormA28Page.fill_form: one turn of the loop over ALL_FIELD_MAPPINGS
FillField(p) ==
  /\ fill[p].pc = "fields"
  /\ fill[p].idx < fill[p].n
  /\ LET f == fill[p]
         mapping == NextMapping(f)
         value == data_dict(f)[mapping.field_name]
     IN \E env \in EnvChoices(p, value) :
          LET out == _fill_field(mapping, value, env) IN
          fill' = [fill EXCEPT ![p] =
            [f EXCEPT
               !.idx = f.idx + 1,
               !.budget = @ - Cost(p, env),
               !.env = env,
               !.probes = out.probes,
               !.call = out.call,
               !.filled_fields =
                  IF out.list = FILLED THEN Append(@, out.result) ELSE @,
               !.skipped_fields =
                  IF out.list = SKIPPED THEN Append(@, out.result) ELSE @,
               !.failed_fields =
                  IF out.list = FAILED THEN Append(@, out.result) ELSE @,
               !.pc = IF f.idx + 1 = f.n THEN "guard" ELSE "fields"]]
  /\ UNCHANGED << shared, sd >>

\* (variant: the screenshot is taken without the guard having run)
Guard_skipped(p) ==
  /\ fill[p].pc = "guard"
  /\ fill' = [fill EXCEPT ![p].pc = "screenshot"]
  /\ UNCHANGED << shared, sd >>

\* fill_form lines 126-128: the submission guard
Guard(p) ==
  /\ fill[p].pc = "guard"
  /\ \E u \in CurrentUrls :
       fill' = [fill EXCEPT ![p] =
         IF verify_no_submit(TARGET_FORM_URL, u)
         THEN [@ EXCEPT !.current_url = Some(u), !.guard = "passed",
                        !.pc = "screenshot"]
         ELSE Raise([@ EXCEPT !.current_url = Some(u), !.guard = "failed"],
                    Exception(SubmittedErr))]
  /\ UNCHANGED << shared, sd >>

\* (variant: success set without looking at the failed list)
SuccessResult_always(f, d) ==
  FillResult(TRUE, f.filled_fields, f.skipped_fields, f.failed_fields,
             Some("base64"), d, Null)

\* the report of lines 142-150, built from the page object's lists
SuccessResult(f, d) ==
  FillResult(Len(f.failed_fields) = 0, f.filled_fields, f.skipped_fields,
             f.failed_fields, Some("base64"), d, Null)

\* fill_form lines 130-150: take_screenshot() ends; the report is built
Screenshot(p) ==
  /\ fill[p].pc = "screenshot"
  /\ \/ /\ BrowserUp(p)
        /\ \E d \in fill[p].durations :
             fill' = [fill EXCEPT ![p] =
               [@ EXCEPT !.screenshot = TRUE, !.pc = "ctx_exit",
                         !.ret = Some(SuccessResult(fill[p], d))]]
     \/ fill' = [fill EXCEPT ![p] = Raise(@, Exception(ScreenshotErr))]
  /\ UNCHANGED << shared, sd >>

\* What leaves "async with" once the context has been closed
AfterClose(f, d) ==
  CASE f.exc.kind = "CancelledError" -> Propagated(f)
    [] f.exc.kind = "Exception"      -> Caught(f, f.exc.msg, d)
    [] OTHER                         -> Returned(f, f.ret[1])

\* (variant: close() after the block, with no finally)
new_context_exit_no_finally(f, closeRaises, d) ==
  IF f.exc.kind # "none" THEN AfterClose(f, d)
  ELSE IF closeRaises THEN Caught([f EXCEPT !.context = "closed"], CloseErr, d)
  ELSE AfterClose([f EXCEPT !.context = "closed"], d)

\* new_context lines 88-89: context.close() ends, with the return value or
\* the exception that left the block; a close() that raises replaces both
new_context_exit(f, closeRaises, d) ==
  LET g == [f EXCEPT !.context = "closed"] IN
  IF closeRaises THEN Caught(g, CloseErr, d) ELSE AfterClose(g, d)

\* (variant: releasing the context closes the browser as well)
CtxExit_closes_browser(p) ==
  /\ fill[p].pc = "ctx_exit"
  /\ \E closeRaises \in BOOLEAN, d \in fill[p].durations :
       fill' = [fill EXCEPT ![p] = new_context_exit(@, closeRaises, d)]
  /\ brAlive' = brAlive \ {fill[p].manager}
  /\ UNCHANGED << instance, lock, waiters, mgr, pwRunning, launched, sd >>

CtxExit(p) ==
  /\ fill[p].pc = "ctx_exit"
  /\ \E closeRaises \in BOOLEAN, d \in fill[p].durations :
       fill' = [fill EXCEPT ![p] = new_context_exit(@, closeRaises, d)]
  /\ UNCHANGED << shared, sd >>

\* The caller cancels the request while fill_form waits in an await
Cancel(p) ==
  /\ fill[p].pc \in {"wait_lock", "init_pw", "init_launch", "new_context",
                     "new_page", "navigate", "fields", "screenshot", "ctx_exit"}
  /\ LET f == [fill[p] EXCEPT !.cancelled = TRUE] IN
     fill' = [fill EXCEPT ![p] =
       CASE f.pc \in {"wait_lock", "init_pw", "init_launch", "new_context"} ->
              Propagated(f)
         [] f.pc = "ctx_exit" -> Propagated([f EXCEPT !.context = "closed"])
         [] OTHER -> Raise(f, CancelledError)]
  /\ waiters' = SelectSeq(waiters, LAMBDA q : q # p)
  /\ lock' = IF lock = p THEN NoProc ELSE lock
  /\ UNCHANGED << instance, mgr, pwRunning, brAlive, launched, sd >>

----------------------------------------------------------------------------
(* automation.py: shutdown_browser and BrowserManager.shutdown *)

\* shutdown from "if self._playwright" on, self._browser being done with
ShutdownRest(s, self, m) ==
  IF m[self].pw
  THEN /\ sd' = [sd EXCEPT ![s] = [pc |-> "stopping", self |-> self]]
       /\ UNCHANGED instance
  ELSE /\ sd' = [sd EXCEPT ![s] = [pc |-> "done", self |-> self]]
       /\ instance' = NoMgr

\* shutdown_browser is called
ShutdownStart(s) ==
  /\ sd[s].pc = "idle"
  /\ IF instance = NoMgr
     THEN /\ sd' = [sd EXCEPT ![s].pc = "done"]
          /\ UNCHANGED instance
     ELSE IF mgr[instance].br
     THEN /\ sd' = [sd EXCEPT ![s] = [pc |-> "closing", self |-> instance]]
          /\ UNCHANGED instance
     ELSE ShutdownRest(s, instance, mgr)
  /\ UNCHANGED << lock, waiters, mgr, pwRunning, brAlive, launched, fill >>

\* shutdown: self._browser.close() ends
ShutdownClosed(s) ==
  /\ sd[s].pc = "closing"
  /\ LET self == sd[s].self IN
     /\ brAlive' = brAlive \ {self}
     /\ mgr' = [mgr EXCEPT ![self].br = FALSE]
     /\ ShutdownRest(s, self, mgr)
  /\ UNCHANGED << lock, waiters, pwRunning, launched, fill >>

\* (variant: shutdown forgets to clear BrowserManager._instance)
ShutdownStopped_keeps_instance(s) ==
  /\ sd[s].pc = "stopping"
  /\ LET self == sd[s].self IN
     /\ pwRunning' = pwRunning \ {self}
     /\ brAlive' = brAlive \ {self}
     /\ mgr' = [mgr EXCEPT ![self].pw = FALSE]
  /\ sd' = [sd EXCEPT ![s].pc = "done"]
  /\ UNCHANGED << instance, lock, waiters, launched, fill >>

\* shutdown: self._playwright.stop() ends; the driver takes its browser along
ShutdownStopped(s) ==
  /\ sd[s].pc = "stopping"
  /\ LET self == sd[s].self IN
     /\ pwRunning' = pwRunning \ {self}
     /\ brAlive' = brAlive \ {self}
     /\ mgr' = [mgr EXCEPT ![self].pw = FALSE]
  /\ instance' = NoMgr
  /\ sd' = [sd EXCEPT ![s].pc = "done"]
  /\ UNCHANGED << lock, waiters, launched, fill >>

----------------------------------------------------------------------------
(* Specifications *)

Next ==
  \/ \E p \in Fills :
       \/ FillStart(p) \/ FillStartWait(p) \/ LockGranted(p)
       \/ InitPlaywright(p) \/ InitLaunch(p)
       \/ NewContext(p) \/ NewPage(p) \/ Navigate(p)
       \/ FillField(p) \/ Guard(p) \/ Screenshot(p) \/ CtxExit(p)
       \/ Cancel(p)
  \/ \E s \in Shutdowns :
       ShutdownStart(s) \/ ShutdownClosed(s) \/ ShutdownStopped(s)

Spec == Init /\ [][Next]_vars

\* One request on a page that may misbehave, with any record
InitFill ==
  /\ InitShared
  /\ fill = [p \in Fills |->
               IF p = 1 THEN NewFill(RecordIds, {TRUE}, MaxFaults, NumMappings, Durations)
               ELSE NewFill({}, {}, 0, 0, {})]

NextFill ==
  \/ FillStart(1) \/ InitPlaywright(1) \/ InitLaunch(1)
  \/ NewContext(1) \/ NewPage(1) \/ Navigate(1)
  \/ FillField(1) \/ Guard(1) \/ Screenshot(1) \/ CtxExit(1)
  \/ Cancel(1)

SpecFill == InitFill /\ [][NextFill]_vars

\* The concurrent requests under fair scheduling: the event loop resumes a
\* task whose await has ended, so the start of the driver and the launch of
\* the browser end (by returning or by raising) and a free lock is handed
\* to its first waiter
Fairness ==
  \A p \in Fills :
    /\ WF_vars(LockGranted(p))
    /\ WF_vars(InitPlaywright(p))
    /\ WF_vars(InitLaunch(p))

SpecLive == Init /\ [][Next]_vars /\ Fairness

----------------------------------------------------------------------------
(* Properties *)

Done(f) == f.pc = "done"
HasReport(f) == Done(f) /\ f.report # Null
NamesOf(seq) == { seq[i].fieldName : i \in 1..Len(seq) }
EntriesFor(seq, name) == SelectSeq(seq, LAMBDA r : r.fieldName = name)
Processed(k) == { ALL_FIELD_MAPPINGS[i].field_name : i \in 1..k }
ValueOf(f, mapping) == Record(f.form_data)[mapping.field_name]
\* the loop of FormA28Page.fill_form has just handled mapping f.idx
InLoop(f) == f.pc \in {"fields", "guard"} /\ f.idx >= 1

\* C1: when a fill_form call is over, whatever way it ended, the browser
\* context it was given is not open any more.
C1_ContextReleased ==
  \A p \in Fills : Done(fill[p]) => fill[p].context # "open"

\* a call that was cancelled while it filled fields, and one whose navigation
\* failed, both ended with their context closed
C1_Witness ==
  \E p \in Fills :
    /\ Done(fill[p]) /\ fill[p].context = "closed"
    /\ fill[p].raised = "CancelledError" /\ fill[p].idx >= 1

\* C2: the initialising fill holds the class lock, so no two fills initialise
\* at once and nobody gets a manager while one does; until a shutdown is
\* called one manager is created and one browser launched at most, and every
\* fill that got past get_instance got that manager, its browser launched.
C2_SingleLaunch ==
  /\ \A p \in Fills : fill[p].pc \in {"init_pw", "init_launch"} => lock = p
  /\ (\A s \in Shutdowns : sd[s].pc = "idle") =>
       /\ Len(mgr) <= 1
       /\ Cardinality(launched) <= 1
       /\ \A p \in Fills :
            /\ fill[p].manager # NoMgr => fill[p].manager = 1
            /\ fill[p].pc \in {"new_context", "new_page", "navigate", "fields",
                               "guard", "screenshot", "ctx_exit"}
                 => fill[p].manager = 1 /\ launched = {1}
            /\ fill[p].pc \in {"init_pw", "init_launch"} =>
                 \A q \in Fills \ {p} : fill[q].pc \in {"idle", "wait_lock", "done"}

\* two fills work in contexts of the one browser, no shutdown having been called
C2_Witness ==
  /\ \A s \in Shutdowns : sd[s].pc = "idle"
  /\ \A p \in {1, 2} : fill[p].context = "open" /\ fill[p].manager = 1
  /\ launched = {1}

\* C3: while a fill runs, the three lists hold each of the mappings handled
\* so far once and nothing else; after the loop these are all the mappings of
\* the registry, and so they are in every report without an error.
Partition(filledF, skippedF, failedF, names) ==
  /\ Len(filledF) + Len(skippedF) + Len(failedF) = Cardinality(names)
  /\ NamesOf(filledF) \cup NamesOf(skippedF) \cup NamesOf(failedF) = names

C3_Partition ==
  \A p \in Fills :
    LET f == fill[p] IN
    /\ f.pc \notin {"idle", "done"} =>
         Partition(f.filled_fields, f.skipped_fields, f.failed_fields,
                   Processed(f.idx))
    /\ f.pc \in {"guard", "screenshot"} => f.idx = NumMappings
    /\ (HasReport(f) /\ f.report[1].error = Null) =>
         Partition(f.report[1].filledFields, f.report[1].skippedFields,
                   f.report[1].failedFields, FieldNames)

\* a report without an error that has entries in all three lists
C3_Witness ==
  \E p \in Fills :
    /\ HasReport(fill[p]) /\ fill[p].report[1].error = Null
    /\ fill[p].report[1].filledFields # << >>
    /\ fill[p].report[1].skippedFields # << >>
    /\ fill[p].report[1].failedFields # << >>

\* C4 as claimed: in every report, success is true exactly when failedFields
\* is empty and the submission guard was run and passed.
C4_SuccessIffGuardAndNoFailures ==
  \A p \in Fills :
    HasReport(fill[p]) =>
      (fill[p].report[1].success <=>
         (fill[p].report[1].failedFields = << >> /\ fill[p].guard = "passed"))

\* C4 as amended: in every report, success is true exactly when failedFields
\* is empty, the submission guard was run and passed, and the report carries
\* no error.
C4_SuccessIffGuardNoFailuresNoError ==
  \A p \in Fills :
    HasReport(fill[p]) =>
      (fill[p].report[1].success <=>
         /\ fill[p].report[1].failedFields = << >>
         /\ fill[p].guard = "passed"
         /\ fill[p].report[1].error = Null)

\* a report with success = true
C4_Witness ==
  \E p \in Fills :
    /\ HasReport(fill[p]) /\ fill[p].report[1].success
    /\ fill[p].guard = "passed"

\* C5: a mapping whose value is None or "" ends in failed_fields with
\* "Required field is empty" when it is required and in skipped_fields with
\* "Empty optional field" when it is not, in no other list, and no selector
\* was queried and no page call made for it.
C5_EmptyValuePolicy ==
  \A p \in Fills :
    LET f == fill[p] IN
    InLoop(f) =>
      /\ \A i \in 1..f.idx :
           LET m == ALL_FIELD_MAPPINGS[i]
               v == ValueOf(f, m)
           IN (v = PyNone \/ v = PyStrVal("")) =>
                IF m.required
                THEN /\ EntriesFor(f.failed_fields, m.field_name) =
                          << FieldResult(m.field_name, FAILED, Null,
                                         Some(<< "Required field is empty" >>)) >>
                     /\ m.field_name \notin NamesOf(f.skipped_fields)
                     /\ m.field_name \notin NamesOf(f.filled_fields)
                ELSE /\ EntriesFor(f.skipped_fields, m.field_name) =
                          << FieldResult(m.field_name, SKIPPED, Null,
                                         Some(<< "Empty optional field" >>)) >>
                     /\ m.field_name \notin NamesOf(f.failed_fields)
                     /\ m.field_name \notin NamesOf(f.filled_fields)
      /\ LET v == ValueOf(f, ALL_FIELD_MAPPINGS[f.idx])
         IN (v = PyNone \/ v = PyStrVal("")) => f.probes = << >> /\ f.call = Null

\* an empty required field has just been failed, an empty optional one
\* skipped before it
C5_Witness ==
  \E p \in Fills :
    LET f == fill[p] IN
    /\ InLoop(f)
    /\ ALL_FIELD_MAPPINGS[f.idx].required
    /\ ValueOf(f, ALL_FIELD_MAPPINGS[f.idx]) = PyStrVal("")
    /\ f.probes = << >>
    /\ \E i \in 1..f.idx :
         /\ ~ALL_FIELD_MAPPINGS[i].required
         /\ ValueOf(f, ALL_FIELD_MAPPINGS[i]) \in {PyNone, PyStrVal("")}

\* C6: a timeout or another exception raised for a field with a value gives
\* that field one Failed outcome, with "Timeout waiting for element" or the
\* failure's description, and nothing else; the loop goes on, no exception
\* leaves it, and the report's error is never a field's failure.
FieldRaised(f) ==
  IF f.env.act = "query_error" THEN "closed"
  ELSE IF f.env.found = {} THEN "none"
  ELSE CallOutcome(f.call[1], f.env)

C6_FieldErrorsRecovered ==
  \A p \in Fills :
    LET f == fill[p] IN
    /\ ( /\ f.pc \in {"fields", "guard", "ctx_exit"} /\ f.idx >= 1
         /\ f.guard = "not_run" /\ ~f.cancelled
         /\ ~IsEmptyValue(ValueOf(f, ALL_FIELD_MAPPINGS[f.idx]))
         /\ FieldRaised(f) \in {"timeout", "error", "closed"} ) =>
           LET m == ALL_FIELD_MAPPINGS[f.idx]
               reason == CASE FieldRaised(f) = "timeout" -> TimeoutMsg
                           [] FieldRaised(f) = "closed"  -> TargetClosedErr
                           [] OTHER                      -> InteractionErr
           IN /\ f.pc # "ctx_exit" /\ f.exc = NoExc
              /\ EntriesFor(f.failed_fields, m.field_name) =
                   << FieldResult(m.field_name, FAILED,
                                  Some(PyStr(ValueOf(f, m))), Some(reason)) >>
              /\ m.field_name \notin NamesOf(f.filled_fields)
              /\ m.field_name \notin NamesOf(f.skipped_fields)
    /\ (HasReport(f) /\ f.report[1].error # Null) =>
         f.report[1].error[1] \notin {TimeoutMsg, InteractionErr, TargetClosedErr}
    /\ (HasReport(f) /\ f.report[1].failedFields # << >>) =>
         /\ f.report[1].error = Null
         /\ Len(f.report[1].filledFields) + Len(f.report[1].skippedFields)
              + Len(f.report[1].failedFields) = NumMappings

\* a report without an error in which a field other than the last one timed out
C6_Witness ==
  \E p \in Fills :
    /\ HasReport(fill[p]) /\ fill[p].report[1].error = Null
    /\ \E i \in 1..Len(fill[p].report[1].failedFields) :
         /\ fill[p].report[1].failedFields[i].error = Some(TimeoutMsg)
         /\ fill[p].report[1].failedFields[i].fieldName
              # ALL_FIELD_MAPPINGS[NumMappings].field_name

\* C7 as claimed: once an initialisation is over and no shutdown is under
\* way, BrowserManager._instance is None or a manager with its browser set,
\* and no driver runs for a manager without a browser.
C7_NoHalfInitialized ==
  (lock = NoProc /\ \A s \in Shutdowns : sd[s].pc \in {"idle", "done"}) =>
    /\ instance # NoMgr => mgr[instance].br
    /\ \A m \in pwRunning : mgr[m].br

\* C8: a shutdown that completes leaves BrowserManager._instance None, and a
\* fill that enters get_instance with _instance None after an earlier manager
\* was shut down creates a new manager and starts initialising it.
ShutdownCompletes(s) == sd[s].pc # "done" /\ sd'[s].pc = "done"
EntersGetInstance(p) ==
  fill[p].pc \in {"idle", "wait_lock"} /\ fill'[p].pc \notin {"idle", "wait_lock"}
    /\ ~fill'[p].cancelled

C8_ReinitAfterShutdown ==
  [][ /\ \A s \in Shutdowns : ShutdownCompletes(s) => instance' = NoMgr
      /\ \A p \in Fills :
           (EntersGetInstance(p) /\ instance = NoMgr /\ Len(mgr) >= 1) =>
             /\ fill'[p].pc = "init_pw"
             /\ instance' = Len(mgr) + 1
             /\ instance' \notin launched
             /\ lock' = p
    ]_vars

\* after a shutdown, a fill has run to a report without an error on the
\* browser of a second manager
C8_Witness ==
  \E p \in Fills :
    /\ HasReport(fill[p]) /\ fill[p].report[1].error = Null
    /\ fill[p].manager = 2
    /\ \E s \in Shutdowns : sd[s].pc = "done"

\* C9: a fill_form call that was not cancelled returns a report and raises
\* nothing; the report has all seven fields, and one with an error has
\* success false.
ReportFields ==
  {"success", "filledFields", "skippedFields", "failedFields",
   "screenshotBase64", "durationMs", "error"}

C9_NeverRaises ==
  \A p \in Fills :
    LET f == fill[p] IN
    (Done(f) /\ ~f.cancelled) =>
      /\ f.raised = "none"
      /\ f.report # Null
      /\ DOMAIN f.report[1] = ReportFields
      /\ f.report[1].success \in BOOLEAN
      /\ f.report[1].durationMs \in Nat
      /\ Len(f.report[1].error) <= 1 /\ Len(f.report[1].screenshotBase64) <= 1
      /\ f.report[1].error # Null => ~f.report[1].success

\* reports for a failed launch and for a failed navigation
C9_Witness ==
  \E p, q \in Fills :
    /\ HasReport(fill[p]) /\ fill[p].report[1].error = Some(LaunchErr)
    /\ HasReport(fill[q]) /\ fill[q].report[1].error = Some(NavigationErr)

\* C10 as claimed: when the guard has run on a page whose origin or path is
\* not the form's, the guard failed, no screenshot is taken, and the report
\* has the submission error, success false and no screenshot.
C10_RedirectAborts ==
  \A p \in Fills :
    LET f == fill[p] IN
    (f.guard # "not_run" /\ NavigatedAway(TARGET_FORM_URL, f.current_url[1])) =>
      /\ f.guard = "failed"
      /\ ~f.screenshot
      /\ HasReport(f) =>
           /\ f.report[1].error = Some(SubmittedErr)
           /\ ~f.report[1].success
           /\ f.report[1].screenshotBase64 = Null

\* C11: a failure before the first field (initialisation, context or page
\* creation, navigation) leaves no field attempted and no outcome recorded,
\* and the report returned for it has three empty lists, no screenshot,
\* success false and the failure's description as error (the description of
\* the close() failure when closing the context failed as well).
PreFieldErrs ==
  {PlaywrightStartErr, LaunchErr, AttributeErr, NotInitializedErr,
   NewContextErr, NewPageErr, NavigationErr}

C11_PreFieldFailureReport ==
  \A p \in Fills :
    LET f == fill[p] IN
    /\ (f.pc = "ctx_exit" /\ f.exc.kind = "Exception" /\ f.exc.msg \in PreFieldErrs) =>
         /\ f.idx = 0 /\ f.probes = << >> /\ f.call = Null
         /\ f.filled_fields = << >> /\ f.skipped_fields = << >>
         /\ f.failed_fields = << >>
         /\ ~f.screenshot /\ f.guard = "not_run"
    /\ (HasReport(f) /\ f.guard = "not_run" /\ f.idx = 0) =>
         /\ \E msg \in PreFieldErrs \cup {CloseErr} :
              f.report[1] = ErrorResult(msg, f.report[1].durationMs)
         /\ ~f.screenshot
    /\ (HasReport(f) /\ f.report[1].error # Null
          /\ f.report[1].error[1] \in PreFieldErrs) =>
         /\ f.idx = 0 /\ ~f.screenshot
         /\ f.report[1].filledFields = << >> /\ f.report[1].skippedFields = << >>
         /\ f.report[1].failedFields = << >>
         /\ f.report[1].screenshotBase64 = Null
         /\ ~f.report[1].success

\* a report for a navigation that failed, the context having been opened
C11_Witness ==
  \E p \in Fills :
    /\ HasReport(fill[p]) /\ fill[p].report[1].error = Some(NavigationErr)
    /\ fill[p].context = "closed" /\ fill[p].idx = 0

\* The report of a fill of record id on a page that resolved every locator
\* and accepted every interaction, as fill_form is about to return it
RequiredNames == { m.field_name : m \in { get_required_fields[i] :
                                          i \in 1..Len(get_required_fields) } }
OptionalNames == FieldNames \ RequiredNames
NominalRun(f, id) ==
  /\ f.pc = "ctx_exit" /\ f.ret # Null /\ f.exc = NoExc
  /\ f.form_data = id /\ f.budget = MaxFaults /\ f.n = NumMappings

\* C12 as claimed: with every required field present and every optional
\* field left out, on a page where everything resolves and succeeds, the
\* report has as many Filled as there are required mappings, as many Skipped
\* as there are optional mappings, no Failed and success = true.
C12_ScenarioA ==
  \A p \in Fills :
    NominalRun(fill[p], "A") =>
      /\ Len(fill[p].ret[1].filledFields) = Cardinality(RequiredNames)
      /\ Len(fill[p].ret[1].skippedFields) = Cardinality(OptionalNames)
      /\ fill[p].ret[1].failedFields = << >>
      /\ fill[p].ret[1].success

\* C12 as amended: in that scenario the Filled outcomes are the required
\* mappings and the optional mappings whose schema default is a value
\* (country and the seven checkboxes), the Skipped ones are the other
\* optional mappings, Failed is empty and success is true.
DefaultedOptional == { n \in OptionalNames : n = "country" \/ n \in BoolFields }

C12_ScenarioA_WithDefaults ==
  \A p \in Fills :
    NominalRun(fill[p], "A") =>
      /\ NamesOf(fill[p].ret[1].filledFields) = RequiredNames \cup DefaultedOptional
      /\ Len(fill[p].ret[1].filledFields)
           = Cardinality(RequiredNames) + Cardinality(DefaultedOptional)
      /\ NamesOf(fill[p].ret[1].skippedFields) = OptionalNames \ DefaultedOptional
      /\ Len(fill[p].ret[1].skippedFields)
           = Cardinality(OptionalNames) - Cardinality(DefaultedOptional)
      /\ \A i \in 1..Len(fill[p].ret[1].skippedFields) :
           fill[p].ret[1].skippedFields[i].error = Some(<< "Empty optional field" >>)
      /\ fill[p].ret[1].failedFields = << >>
      /\ fill[p].ret[1].success

\* the report of scenario A is ready: 27 Filled and 15 Skipped
C12_Witness ==
  \E p \in Fills :
    /\ NominalRun(fill[p], "A")
    /\ Len(fill[p].ret[1].filledFields) = 27
    /\ Len(fill[p].ret[1].skippedFields) = 15

\* C13: with passport_number = "" and every other required field valid, on a
\* page where everything resolves and succeeds, failedFields is exactly the
\* entry of passport_number with "Required field is empty", success is
\* false, and every other field that has a value is in filledFields.
C13_ScenarioB ==
  \A p \in Fills :
    NominalRun(fill[p], "B") =>
      /\ fill[p].ret[1].failedFields =
           << FieldResult("passport_number", FAILED, Null,
                          Some(<< "Required field is empty" >>)) >>
      /\ ~fill[p].ret[1].success
      /\ fill[p].ret[1].error = Null
      /\ \A n \in FieldNames \ {"passport_number"} :
           ~IsEmptyValue(Record("B")[n]) =>
             EntriesFor(fill[p].ret[1].filledFields, n) =
               << FieldResult(n, FILLED, Some(PyStr(Record("B")[n])), Null) >>

\* the report of scenario B is ready, with fields filled after the failed one
C13_Witness ==
  \E p \in Fills :
    /\ NominalRun(fill[p], "B")
    /\ "passport_number" \in NamesOf(fill[p].ret[1].failedFields)
    /\ "sex" \in NamesOf(fill[p].ret[1].filledFields)
    /\ "client_signature_date" \in NamesOf(fill[p].ret[1].filledFields)

\* C14: every outcome a fill has recorded, and every outcome of the report
\* it returns, carries the value of that fill's own record for its field (or
\* no value when that is empty); and a step a fill takes between opening and
\* closing its context changes that fill's frame only: not another fill's
\* context, page position or lists, and nothing of the manager.
OwnEntries(f, seq) ==
  \A i \in 1..Len(seq) :
    LET v == Record(f.form_data)[seq[i].fieldName] IN
    seq[i].value = IF v = PyNone \/ v = PyStrVal("") THEN Null ELSE Some(PyStr(v))

OwnValues(f) ==
  /\ OwnEntries(f, f.filled_fields) /\ OwnEntries(f, f.skipped_fields)
  /\ OwnEntries(f, f.failed_fields)
  /\ f.ret # Null =>
       /\ OwnEntries(f, f.ret[1].filledFields) /\ OwnEntries(f, f.ret[1].skippedFields)
       /\ OwnEntries(f, f.ret[1].failedFields)
  /\ f.report # Null =>
       /\ OwnEntries(f, f.report[1].filledFields)
       /\ OwnEntries(f, f.report[1].skippedFields)
       /\ OwnEntries(f, f.report[1].failedFields)

InContext(f) ==
  f.pc \in {"new_page", "navigate", "fields", "guard", "screenshot", "ctx_exit"}

OwnFrame ==
  \A p \in Fills :
    (InContext(fill[p]) /\ fill'[p] # fill[p]) =>
      /\ \A q \in Fills \ {p} : fill'[q] = fill[q]
      /\ UNCHANGED shared

C14_Isolation ==
  /\ [](\A p \in Fills : OwnValues(fill[p]))
  /\ [][OwnFrame]_vars

\* two fills are in their contexts at once, each with outcomes recorded, and
\* hold different values for the same field
C14_Witness ==
  /\ \A p \in {1, 2} : fill[p].context = "open" /\ fill[p].pc = "guard"
  /\ fill[1].form_data # fill[2].form_data
  /\ fill[1].manager = fill[2].manager
  /\ \E i \in 1..Len(fill[1].filled_fields), j \in 1..Len(fill[2].filled_fields) :
       /\ fill[1].filled_fields[i].fieldName = fill[2].filled_fields[j].fieldName
       /\ fill[1].filled_fields[i].value # fill[2].filled_fields[j].value

\* C15: a Select field with a value, whose element is on the page but offers
\* no option with that value, gets one Failed outcome and no Filled one; and
\* a Select field is recorded as Filled only after select_option was called
\* with the string of its value on an element that had the option.
LastMapping(f) == ALL_FIELD_MAPPINGS[f.idx]

C15_SelectOptionMissing ==
  \A p \in Fills :
    LET f == fill[p] IN
    (InLoop(f) /\ LastMapping(f).field_type = SELECT
       /\ ~IsEmptyValue(ValueOf(f, LastMapping(f)))) =>
      LET m == LastMapping(f) IN
      /\ (f.env.act = "no_option" /\ f.env.found # {}) =>
           /\ Len(EntriesFor(f.failed_fields, m.field_name)) = 1
           /\ EntriesFor(f.failed_fields, m.field_name)[1].status = FAILED
           /\ EntriesFor(f.failed_fields, m.field_name)[1].error # Null
           /\ m.field_name \notin NamesOf(f.filled_fields)
           /\ m.field_name \notin NamesOf(f.skipped_fields)
      /\ m.field_name \in NamesOf(f.filled_fields) =>
           /\ f.env.act = "ok"
           /\ f.call = Some([op |-> "select_option", selector |-> m.selector,
                             arg |-> PyStr(ValueOf(f, m))])

\* apt_ste_flr was given a value its element has no option for, and failed
C15_Witness ==
  \E p \in Fills :
    LET f == fill[p] IN
    /\ InLoop(f) /\ LastMapping(f).field_type = SELECT
    /\ f.env = [found |-> {0}, act |-> "no_option"]
    /\ f.call # Null
    /\ LastMapping(f).field_name \in NamesOf(f.failed_fields)

\* C16: the step that closes a fill's context leaves _instance, the managers
\* with their driver and browser, the set of browsers launched, the lock,
\* every other fill (its context included) and the shutdowns as they were;
\* and a fill that enters get_instance while a manager with a live browser
\* is registered takes that manager and launches nothing.
ContextClosedBy(p) == fill[p].context = "open" /\ fill'[p].context = "closed"

C16_ReleaseFrame ==
  [][ /\ \A p \in Fills :
           ContextClosedBy(p) =>
             /\ UNCHANGED << instance, mgr, pwRunning, brAlive, launched, lock, waiters >>
             /\ UNCHANGED sd
             /\ \A q \in Fills \ {p} : fill'[q] = fill[q]
      /\ \A q \in Fills :
           (EntersGetInstance(q) /\ instance # NoMgr /\ instance \in brAlive) =>
             /\ fill'[q].pc = "new_context" /\ fill'[q].manager = instance
             /\ UNCHANGED << instance, mgr, pwRunning, brAlive, launched >>
    ]_vars

\* one fill is over and its context closed while the other holds an open
\* context of the same browser, the one browser launched
C16_Witness ==
  \E p, q \in Fills :
    /\ Done(fill[p]) /\ fill[p].context = "closed" /\ fill[p].manager = 1
    /\ fill[q].context = "open" /\ fill[q].manager = 1
    /\ launched = {1} /\ brAlive = {1} /\ instance = 1

\* C17: at every point of a fill the outcomes recorded are those of the
\* first idx mappings of ALL_FIELD_MAPPINGS, one each, every list is in
\* registry order, and the selectors queried and the page call made last
\* belong to mapping idx, whose outcome is recorded; a turn of the loop
\* records the outcome of mapping idx+1 and of no other; the lists of a
\* report are in registry order too.
RegistryIndex(name) ==
  CHOOSE i \in 1..NumMappings : ALL_FIELD_MAPPINGS[i].field_name = name

InRegistryOrder(seq) ==
  \A i, j \in 1..Len(seq) :
    i < j => RegistryIndex(seq[i].fieldName) < RegistryIndex(seq[j].fieldName)

Recorded(f) ==
  NamesOf(f.filled_fields) \cup NamesOf(f.skipped_fields) \cup NamesOf(f.failed_fields)

SequentialState(f) ==
  /\ f.pc \notin {"idle", "done"} =>
       /\ Recorded(f) = Processed(f.idx)
       /\ Len(f.filled_fields) + Len(f.skipped_fields) + Len(f.failed_fields) = f.idx
       /\ InRegistryOrder(f.filled_fields) /\ InRegistryOrder(f.skipped_fields)
       /\ InRegistryOrder(f.failed_fields)
       /\ f.call # Null => f.idx >= 1 /\ f.call[1].selector = LastMapping(f).selector
       /\ f.probes # << >> => f.idx >= 1 /\ LastMapping(f).field_name \in Recorded(f)
  /\ f.report # Null =>
       /\ InRegistryOrder(f.report[1].filledFields)
       /\ InRegistryOrder(f.report[1].skippedFields)
       /\ InRegistryOrder(f.report[1].failedFields)

SequentialStep ==
  \A p \in Fills :
    (fill'[p].idx # fill[p].idx) =>
      /\ fill'[p].idx = fill[p].idx + 1
      /\ Recorded(fill'[p]) =
           Recorded(fill[p]) \cup {ALL_FIELD_MAPPINGS[fill[p].idx + 1].field_name}
      /\ ALL_FIELD_MAPPINGS[fill[p].idx + 1].field_name \notin Recorded(fill[p])

C17_SequentialOrder ==
  /\ [](\A p \in Fills : SequentialState(fill[p]))
  /\ [][SequentialStep]_vars

\* a report whose lists hold outcomes from the first and from the last
\* section of the registry
C17_Witness ==
  \E p \in Fills :
    /\ HasReport(fill[p]) /\ fill[p].report[1].error = Null
    /\ Len(fill[p].report[1].filledFields) >= 2
    /\ fill[p].report[1].filledFields[1].fieldName
         = ATTORNEY_FIELDS[2].field_name
    /\ fill[p].report[1].filledFields[Len(fill[p].report[1].filledFields)].fieldName
         = ATTORNEY_SIGNATURE_FIELDS[1].field_name
    /\ Len(fill[p].report[1].skippedFields) >= 2

\* The selectors queried for a field whose own selector matches nothing:
\* the selector, then the alternatives in order up to the first that matches
MinOf(S) == CHOOSE k \in S : \A j \in S : k <= j
FallbackProbes(found) ==
  << 0 >> \o [k \in 1..(IF found = {} THEN 4 ELSE MinOf(found)) |-> k]

\* C18 as claimed: when the mapping's selector matches nothing and an
\* alternative does, on a page that accepts the interaction, the
\* alternatives were queried in order up to the first match and the field
\* ends as Filled.
C18_FallbackFilled ==
  \A p \in Fills :
    LET f == fill[p] IN
    (InLoop(f) /\ ~IsEmptyValue(ValueOf(f, LastMapping(f)))
       /\ 0 \notin f.env.found /\ f.env.found # {} /\ f.env.act = "ok") =>
      /\ f.probes = FallbackProbes(f.env.found)
      /\ LastMapping(f).field_name \in NamesOf(f.filled_fields)
      /\ LastMapping(f).field_name \notin NamesOf(f.failed_fields)

\* C19: a field with a value for which the selector and the four
\* alternatives all match nothing gets, required or not, one Skipped outcome
\* with its value and the reason "Selector not found: <selector>", after
\* all five queries and without a page call; it is in neither other list;
\* and a report of such a run has success = true when nothing failed.
C19_NotFoundSkipped ==
  \A p \in Fills :
    LET f == fill[p] IN
    /\ (InLoop(f) /\ ~IsEmptyValue(ValueOf(f, LastMapping(f)))
          /\ f.env.found = {} /\ f.env.act # "query_error") =>
         LET m == LastMapping(f) IN
         /\ EntriesFor(f.skipped_fields, m.field_name) =
              << FieldResult(m.field_name, SKIPPED, Some(PyStr(ValueOf(f, m))),
                             Some(<< "Selector not found: ", m.selector >>)) >>
         /\ m.field_name \notin NamesOf(f.failed_fields)
         /\ m.field_name \notin NamesOf(f.filled_fields)
         /\ f.probes = << 0, 1, 2, 3, 4 >> /\ f.call = Null
    /\ (f.pc = "ctx_exit" /\ f.ret # Null) =>
         (f.ret[1].success <=> f.ret[1].failedFields = << >>)

\* a report with success = true in which a required field was skipped for
\* want of an element
C19_Witness ==
  \E p \in Fills :
    /\ HasReport(fill[p]) /\ fill[p].report[1].success
    /\ \E i \in 1..Len(fill[p].report[1].skippedFields) :
         LET r == fill[p].report[1].skippedFields[i] IN
         /\ r.fieldName \in RequiredNames
         /\ r.error = Some(<< "Selector not found: ",
                              ALL_FIELD_MAPPINGS[RegistryIndex(r.fieldName)].selector >>)

\* C20 as claimed: a report returned after the guard failed has success
\* false and an error and still holds one outcome for every mapping in its
\* three lists; a report with three empty lists comes only from a failure
\* before the first field.
C20_OutcomesKeptOnAbort ==
  \A p \in Fills :
    LET f == fill[p] IN
    /\ (HasReport(f) /\ f.guard = "failed") =>
         /\ ~f.report[1].success /\ f.report[1].error # Null
         /\ Partition(f.report[1].filledFields, f.report[1].skippedFields,
                      f.report[1].failedFields, Processed(f.n))
    /\ (HasReport(f) /\ f.report[1].filledFields = << >>
          /\ f.report[1].skippedFields = << >> /\ f.report[1].failedFields = << >>) =>
         f.idx = 0

\* C21: fields are processed only on a page that was navigated to, the guard
\* runs only after all mappings were processed, the screenshot is taken only
\* in the step after the guard passed, and every report without an error
\* carries a screenshot, taken in that run.
StepsInOrder(f) ==
  /\ f.idx >= 1 => f.current_url # Null
  /\ f.pc = "fields" => f.current_url # Null /\ f.guard = "not_run" /\ ~f.screenshot
  /\ f.pc = "guard" => f.idx = f.n /\ f.guard = "not_run" /\ ~f.screenshot
  /\ f.guard # "not_run" => f.idx = f.n /\ f.current_url # Null
  /\ f.pc = "screenshot" => f.guard = "passed" /\ ~f.screenshot
  /\ f.screenshot => f.guard = "passed" /\ f.idx = f.n
  /\ f.ret # Null => f.screenshot /\ f.ret[1].screenshotBase64 # Null
  /\ (f.report # Null /\ f.report[1].error = Null) =>
       /\ f.report[1].screenshotBase64 # Null
       /\ f.screenshot /\ f.guard = "passed"

ScreenshotTaken(p) == ~fill[p].screenshot /\ fill'[p].screenshot

C21_ScreenshotOrder ==
  /\ [](\A p \in Fills : StepsInOrder(fill[p]))
  /\ [][\A p \in Fills :
          /\ ScreenshotTaken(p) => fill[p].pc = "screenshot" /\ fill[p].guard = "passed"
          /\ (fill[p].guard = "not_run" /\ fill'[p].guard # "not_run") =>
               fill[p].pc = "guard" /\ fill[p].idx = fill[p].n
          /\ fill'[p].idx # fill[p].idx => fill[p].pc = "fields"]_vars

\* a report without an error, with its screenshot, after a guard that passed
\* on a URL other than the one navigated to
C21_Witness ==
  \E p \in Fills :
    /\ HasReport(fill[p]) /\ fill[p].report[1].error = Null
    /\ fill[p].report[1].screenshotBase64 # Null
    /\ fill[p].idx = NumMappings
    /\ fill[p].current_url = Some(Url(FormOrigin, FormPath, << "?sent=1" >>))

\* C22 as claimed: the guard passes exactly when the page's URL has the
\* form's origin and path; a URL that differs in either fails it.
C22_GuardOriginAndPath ==
  \A p \in Fills :
    fill[p].guard # "not_run" =>
      (fill[p].guard = "passed"
         <=> ~NavigatedAway(TARGET_FORM_URL, fill[p].current_url[1]))

\* C23 as claimed: for a Select or Radio field whose value is an enumeration
\* member, the string passed to the page call and recorded in the outcome is
\* the member's value.
EnumFields == {"apt_ste_flr", "is_subject_to_orders", "sex"}

C23_EnumUnderlyingValue ==
  \A p \in Fills :
    LET f == fill[p] IN
    (InLoop(f) /\ LastMapping(f).field_name \in EnumFields
       /\ ValueOf(f, LastMapping(f)).t = "enum" /\ f.call # Null) =>
      /\ f.call[1].arg = ValueOf(f, LastMapping(f)).s
      /\ \A r \in { f.filled_fields[i] : i \in 1..Len(f.filled_fields) } :
           r.fieldName = LastMapping(f).field_name =>
             r.value = Some(ValueOf(f, LastMapping(f)).s)

\* C24 as claimed: at most one browser is alive, and a browser that is alive
\* belongs to the manager BrowserManager._instance refers to.
C24_OneLiveBrowser ==
  /\ Cardinality(brAlive) <= 1
  /\ \A m \in brAlive : m = instance

\* C25 as claimed: a get_instance call that returns (it did not raise out of
\* the initialisation and was not cancelled) returns a manager, and that
\* manager's browser is alive at that moment.
GetInstanceReturned(p) ==
  /\ fill[p].pc \in {"idle", "wait_lock", "init_launch"}
  /\ fill'[p].pc \in {"new_context", "done"}
  /\ ~fill'[p].cancelled
  /\ fill'[p].report # Null =>
       fill'[p].report[1].error \notin {Some(PlaywrightStartErr), Some(LaunchErr)}

C25_ReturnsLiveManager ==
  [][\A p \in Fills :
       GetInstanceReturned(p) =>
         /\ fill'[p].manager # NoMgr
         /\ fill'[p].manager \in brAlive'
         /\ mgr'[fill'[p].manager].br]_vars

\* C26 as claimed: a step of shutdown that closes a browser finds no fill
\* with an open context of that browser and none that holds its manager and
\* has yet to create its context; a fill that has its manager works on a
\* live browser until its context is closed.
BrowserClosedBy(s, m) == sd'[s] # sd[s] /\ m \in brAlive /\ m \notin brAlive'

C26_NoShutdownUnderFill ==
  [][\A s \in Shutdowns : \A m \in 1..Len(mgr) :
       BrowserClosedBy(s, m) =>
         \A p \in Fills :
           fill[p].manager = m =>
             /\ fill[p].context # "open"
             /\ fill[p].pc # "new_context"]_vars

\* C27: a manager's headless flag is the flag of the call that created it
\* and never changes afterwards, the mode a browser was launched in never
\* changes, a call that finds a manager registered changes no manager, and
\* so every live browser runs in the mode its initialising call asked for.
HeadlessAtCreation ==
  /\ \A m \in 1..Len(mgr) :
       /\ mgr'[m].headless = mgr[m].headless
       /\ mgr[m].mode # "none" => mgr'[m].mode = mgr[m].mode
  /\ Len(mgr') # Len(mgr) =>
       \E p \in Fills :
         /\ fill[p].pc \in {"idle", "wait_lock"} /\ fill'[p].pc = "init_pw"
         /\ fill'[p].self = Len(mgr') /\ instance' = Len(mgr')
         /\ mgr'[Len(mgr')] = NewManager(fill'[p].headless)
  /\ \A q \in Fills :
       (EntersGetInstance(q) /\ instance # NoMgr) => mgr' = mgr

C27_HeadlessOnlyAtCreation ==
  /\ [](\A m \in brAlive : mgr[m].mode = LaunchMode(mgr[m]))
  /\ [](\A p \in Fills :
          fill[p].pc \in {"init_pw", "init_launch"} =>
            mgr[fill[p].self].headless = fill[p].headless)
  /\ [][HeadlessAtCreation]_vars

\* a call that asked for a headed browser works in a context of the
\* headless browser another call had launched
C27_Witness ==
  \E p \in Fills :
    /\ fill[p].context = "open" /\ ~fill[p].headless
    /\ fill[p].manager \in brAlive
    /\ mgr[fill[p].manager].headless
    /\ mgr[fill[p].manager].mode = "headless"

\* C28: a Checkbox field whose record value is false is never Skipped as
\* an empty optional field nor Failed as an empty required one: its locator
\* is queried, and when the element is there and the page call succeeds it
\* is unchecked through its selector and recorded once as Filled with value
\* "False"; of the values a record holds, only None and the empty string
\* are empty.
FalseCheckbox(f) ==
  /\ InLoop(f)
  /\ LastMapping(f).field_type = CHECKBOX
  /\ ValueOf(f, LastMapping(f)) = PyBoolVal(FALSE)

C28_FalseIsNotEmpty ==
  /\ \A id \in RecordIds : \A n \in FieldNames :
       IsEmptyValue(Record(id)[n]) <=>
         (Record(id)[n] = PyNone \/ Record(id)[n] = PyStrVal(""))
  /\ \A p \in Fills :
       LET f == fill[p] IN
       FalseCheckbox(f) =>
         LET m == LastMapping(f) IN
         /\ f.probes # << >> /\ f.probes[1] = 0
         /\ \A i \in 1..Len(f.skipped_fields) :
              f.skipped_fields[i].fieldName = m.field_name =>
                f.skipped_fields[i].error # Some(<< "Empty optional field" >>)
         /\ \A i \in 1..Len(f.failed_fields) :
              f.failed_fields[i].fieldName = m.field_name =>
                f.failed_fields[i].error # Some(<< "Required field is empty" >>)
         /\ (0 \in f.env.found /\ f.env.act \in {"ok", "no_option"}) =>
              /\ f.probes = << 0 >>
              /\ f.call = Some([op |-> "uncheck", selector |-> m.selector, arg |-> ""])
              /\ EntriesFor(f.filled_fields, m.field_name) =
                   << FieldResult(m.field_name, FILLED, Some("False"), Null) >>
              /\ m.field_name \notin NamesOf(f.skipped_fields)
              /\ m.field_name \notin NamesOf(f.failed_fields)

\* a checkbox left at the schema default false has just been unchecked and
\* recorded as Filled
C28_Witness ==
  \E p \in Fills :
    LET f == fill[p] IN
    /\ FalseCheckbox(f)
    /\ f.form_data = "A"
    /\ SchemaDefault(LastMapping(f).field_name) = PyBoolVal(FALSE)
    /\ f.call # Null /\ f.call[1].op = "uncheck"
    /\ LastMapping(f).field_name \in NamesOf(f.filled_fields)

\* C29 as claimed: when navigation, the fields, the guard and the
\* screenshot all succeeded, the report fill_form returns once the context
\* has been released is the report built after the screenshot, with no
\* error, the recorded outcomes and the screenshot, whether or not
\* context.close() raised.
C29_CloseFailureKeepsReport ==
  [][\A p \in Fills :
       (/\ fill[p].pc = "ctx_exit" /\ fill[p].ret # Null /\ fill[p].exc = NoExc
        /\ fill'[p].report # Null) =>
         /\ fill'[p].report = fill[p].ret
         /\ fill'[p].report[1].error = Null
         /\ fill'[p].report[1].screenshotBase64 # Null
         /\ Len(fill'[p].report[1].filledFields)
              + Len(fill'[p].report[1].skippedFields)
              + Len(fill'[p].report[1].failedFields) = fill[p].n]_vars

\* C30 as claimed: the lock is held only by a call inside get_instance and
\* every time it is held it is released; a call waiting for the lock stops
\* waiting; and every call that entered get_instance has eventually been
\* handed a manager or seen get_instance raise.
InGetInstance(f) == f.pc \in {"wait_lock", "init_pw", "init_launch"}
GetInstanceRaised(f) ==
  \/ f.raised # "none"
  \/ /\ f.report # Null
     /\ f.report[1].error \in {Some(PlaywrightStartErr), Some(LaunchErr)}
LockHolderInside ==
  lock # NoProc => fill[lock].pc \in {"init_pw", "init_launch"}
LockReleased == (lock # NoProc) ~> (lock = NoProc)
WaiterServed ==
  \A p \in Fills : (fill[p].pc = "wait_lock") ~> (fill[p].pc # "wait_lock")
GetInstanceEnds ==
  \A p \in Fills : InGetInstance(fill[p]) ~> ~InGetInstance(fill[p])

C30_LockNeverHeldForever ==
  /\ []LockHolderInside
  /\ LockReleased
  /\ WaiterServed
  /\ \A p \in Fills :
       InGetInstance(fill[p]) ~>
         (fill[p].manager # NoMgr \/ GetInstanceRaised(fill[p]))

====
